---------------------------- MODULE Spec2Model ----------------------------
(***************************************************************************)
(* Model of main.py of shift-light: the Gauge object, the schema-driven   *)
(* game detector and telemetry decoder, and the three cooperative tasks   *)
(* (sim_task, Gauge.check_redline, run_idle_animation) that uasyncio      *)
(* interleaves at their await points.                                     *)
(*                                                                         *)
(* A packet is a sequence of 4-byte slots.  A slot holds the number that  *)
(* struct.unpack_from reads there, written in tenths (10 stands for 1.0,  *)
(* -5 for -0.5), so that int(value * multiplier) truncates for real.      *)
(* A field offset counts slots.  Python's None is the string "None"       *)
(* where a name is expected and the empty tuple <<>> where a number is    *)
(* expected (a number n is then <<n>>).                                   *)
(***************************************************************************)
EXTENDS Integers, Sequences, FiniteSets, TLC

\* ----------------------------------------------------------------- bounds
\* Longest packet, in slots, that the socket delivers in the model.
MaxLen == 3

\* The numbers (in tenths) a slot of a packet may hold: -1.5, 0.0, 1.5 and
\* 2000.0.  As a gear they decode to -1, 0, 1 and 2000; as an rpm scaled by
\* 10 to -15, 0, 15 and 20000.
RawVals == {-15, 0, 15, 20000}

\* ------------------------------------------------------ program constants
num_pixels == 24
flash_max_cycles == 50
idle_timeout == 5
default_max_rpm == 3000

None == "None"

\* --------------------------------------------------------------- packets
RECURSIVE SeqsUpTo(_, _)
SeqsUpTo(S, n) ==
    IF n = 0 THEN {<<>>}
    ELSE LET shorter == SeqsUpTo(S, n - 1)
         IN  shorter \cup {Append(s, v) : s \in {t \in shorter : Len(t) = n - 1}, v \in S}

Packets == SeqsUpTo(RawVals, MaxLen)

\* The datagrams the simulator sends in the model: empty; gear 1 at 1500 rpm
\* for a game with gear, rpm at slots 0, 1; gear -1 at 5000 rpm; rpm 20000 there;
\* and, for a game with rpm, gear, max_rpm at slots 0, 1, 2: 2000 rpm of 2000,
\* 150 rpm with max_rpm 0, a packet both layouts read as plausible, one too
\* short for max_rpm, and 2000 rpm of 150.
Datagrams ==
    { <<>>, <<15, 1500>>, <<-15, 5000>>, <<0, 20000>>,
      <<20000, 15, 20000>>, <<1500, 0, 0>>, <<15, 15, 1500>>, <<20000, 15>>,
      <<20000, 15, 1500>> }

\* What sock.recv(512) does on the non-blocking socket: it returns a
\* datagram, or raises OSError when none is queued.
NoData == [exc |-> "OSError", val |-> <<>>]
SockRecv == {[exc |-> "", val |-> p] : p \in Datagrams} \cup {NoData}

\* ------------------------------------------------------- schema registry
GearMap == [g \in {"-1", "0", "1", "2"} |->
              IF g = "-1" THEN "R" ELSE IF g = "0" THEN "N" ELSE g]

\* gear at slot 0, rpm at slot 1 scaled by 10, no max_rpm field.
SchemaA ==
    [name |-> "Game A",
     fields |-> [gear |-> [format |-> "<f", offset |-> 0, multiplier |-> 1, map |-> GearMap],
                 rpm  |-> [format |-> "<f", offset |-> 1, multiplier |-> 10]]]

\* rpm at slot 0, gear at slot 1, an explicit max_rpm field at slot 2.
SchemaB ==
    [name |-> "Game B",
     fields |-> [gear    |-> [format |-> "<f", offset |-> 1, multiplier |-> 1, map |-> GearMap],
                 rpm     |-> [format |-> "<f", offset |-> 0, multiplier |-> 1],
                 max_rpm |-> [format |-> "<f", offset |-> 2]]]

\* A schema entry whose rpm format string struct does not know.
SchemaBadFormat ==
    [name |-> "Bad format",
     fields |-> [gear |-> [format |-> "<f", offset |-> 0, multiplier |-> 1, map |-> GearMap],
                 rpm  |-> [format |-> "<?x", offset |-> 1, multiplier |-> 10]]]

\* A schema entry whose gear field has no "map" key.
SchemaNoMap ==
    [name |-> "No map",
     fields |-> [gear |-> [format |-> "<f", offset |-> 0, multiplier |-> 1],
                 rpm  |-> [format |-> "<f", offset |-> 1, multiplier |-> 10]]]

\* A registry is the dict game_schemas in its iteration order.
RegistryGood == << [id |-> "gameA", schema |-> SchemaA],
                   [id |-> "gameB", schema |-> SchemaB] >>

RegistryMalformed == << [id |-> "badfmt", schema |-> SchemaBadFormat],
                        [id |-> "nomap",  schema |-> SchemaNoMap],
                        [id |-> "gameB",  schema |-> SchemaB] >>

\* The schema files of the model.  The Gauge field game_schemas holds the
\* name of the file set_schemas loaded ("" before), and GameSchemas gives
\* the dict it stands for.
SchemaFiles == {"good", "malformed"}

GameSchemas(g) ==
    IF g.game_schemas = "good" THEN RegistryGood
    ELSE IF g.game_schemas = "malformed" THEN RegistryMalformed
    ELSE <<>>

GameIds(reg) == {reg[i].id : i \in 1..Len(reg)}

SchemaOf(reg, game_id) ==
    reg[CHOOSE i \in 1..Len(reg) : reg[i].id = game_id].schema

\* ----------------------------------------------------- telemetry decoder
\* An operation either returns a value or raises the named exception.
Return(v) == [exc |-> "", val |-> v]
Raise(e) == [exc |-> e]
Raised(r) == r.exc # ""

\* int(): n / d truncated toward zero (d > 0).
Trunc(n, d) == IF n >= 0 THEN n \div d ELSE -((-n) \div d)

\* The struct formats of the model, each one slot wide.
Formats == {"<f"}
calcsize(format) == 1

\* struct.unpack_from(format, data, offset)[0], in tenths.
unpack_from(format, data, offset) ==
    IF format \notin Formats THEN Raise("struct.error")
    ELSE IF offset < 0 \/ offset + calcsize(format) > Len(data) THEN Raise("struct.error")
    ELSE Return(data[offset + 1])

\* int(struct.unpack_from(info["format"], data, info["offset"])[0] * info["multiplier"])
DecodeScaled(info, data) ==
    IF ~({"format", "offset"} \subseteq DOMAIN info) THEN Raise("KeyError")
    ELSE LET u == unpack_from(info.format, data, info.offset)
         IN  IF Raised(u) THEN u
             ELSE IF "multiplier" \notin DOMAIN info THEN Raise("KeyError")
             ELSE Return(Trunc(u.val * info.multiplier, 10))

\* The max_rpm decode with the gear and rpm multiplier of 10 applied to it:
\* the variant C13 rules out.
DecodePlainTimesTen(info, data) ==
    IF ~({"format", "offset"} \subseteq DOMAIN info) THEN Raise("KeyError")
    ELSE LET u == unpack_from(info.format, data, info.offset)
         IN  IF Raised(u) THEN u ELSE Return(Trunc(u.val * 10, 10))

\* int(struct.unpack_from(info["format"], data, info["offset"])[0])
DecodePlain(info, data) ==
    IF ~({"format", "offset"} \subseteq DOMAIN info) THEN Raise("KeyError")
    ELSE LET u == unpack_from(info.format, data, info.offset)
         IN  IF Raised(u) THEN u ELSE Return(Trunc(u.val, 10))

\* Gauge.unpack_game_data: the tuple (gear, rpm, max_rpm), or (None, None)
\* for a game id the registry does not hold.
unpack_game_data(g, game_id, data) ==
    IF game_id \notin GameIds(GameSchemas(g)) THEN Return(<< <<>>, <<>> >>)
    ELSE LET schema == SchemaOf(GameSchemas(g), game_id)
             fields == IF "fields" \in DOMAIN schema THEN schema.fields ELSE [k \in {} |-> 0]
         IN  IF ~({"gear", "rpm"} \subseteq DOMAIN fields) THEN Raise("KeyError")
             ELSE LET gear == DecodeScaled(fields.gear, data)
                      rpm == DecodeScaled(fields.rpm, data)
                  IN  IF Raised(gear) THEN gear
                      ELSE IF Raised(rpm) THEN rpm
                      ELSE IF "max_rpm" \in DOMAIN fields
                      THEN LET max_rpm == DecodePlain(fields.max_rpm, data)
                           IN  IF Raised(max_rpm) THEN max_rpm
                               ELSE Return(<< <<gear.val>>, <<rpm.val>>, <<max_rpm.val>> >>)
                      ELSE Return(<< <<gear.val>>, <<rpm.val>>, <<>> >>)

\* --------------------------------------------------------- game detector
\* Line 172 with the upper rpm bound closed: the variant C3's bounds rule out.
PlausibleClosed(gear, rpm) == gear \in -1..10 /\ 0 < rpm /\ rpm <= 20000

\* The test of line 172 on a decoded gear and rpm.
Plausible(gear, rpm) == gear \in -1..10 /\ 0 < rpm /\ rpm < 20000

\* The for loop of detect_game from schema i on, on the Gauge fields g;
\* tried counts the schemas evaluated so far.
RECURSIVE DetectFrom(_, _, _, _)
DetectFrom(g, data, i, tried) ==
    IF i > Len(GameSchemas(g)) THEN [ret |-> None, g |-> g, tried |-> tried]
    ELSE LET game_id == GameSchemas(g)[i].id
             schema == GameSchemas(g)[i].schema
             u == unpack_game_data(g, game_id, data)
         IN  IF Raised(u) THEN DetectFrom(g, data, i + 1, tried + 1)
             ELSE IF ~Plausible(u.val[1][1], u.val[2][1])
             THEN DetectFrom(g, data, i + 1, tried + 1)
             ELSE LET locked == [g EXCEPT !.detected_game = game_id]
                      gear_info == schema.fields.gear
                  IN  IF "map" \notin DOMAIN gear_info
                      THEN DetectFrom(locked, data, i + 1, tried + 1)
                      ELSE [ret |-> game_id,
                            g |-> [locked EXCEPT
                                     !.gear_map = gear_info.map,
                                     !.max_rpm = IF u.val[3] # <<>> /\ u.val[3][1] # 0
                                                 THEN u.val[3][1] ELSE @],
                            tried |-> tried + 1]

\* detect_game without the early return of lines 163-165: the variant C2's
\* latch rules out.
detect_game_rescan(g, data) == DetectFrom(g, data, 1, 0)

\* Gauge.detect_game(data) on the Gauge fields g.
detect_game(g, data) ==
    IF g.detected_game # None THEN [ret |-> g.detected_game, g |-> g, tried |-> 0]
    ELSE DetectFrom(g, data, 1, 0)

\* ------------------------------------------------------------ the gauge
\* A level is the fraction num / den with den > 0.
Level(num, den) == [num |-> num, den |-> den]

\* a / b for b # 0.
Divide(a, b) == IF b > 0 THEN Level(a, b) ELSE Level(-a, -b)

\* level < pct / 100
LevelBelow(level, pct) == level.num * 100 < pct * level.den

\* max(0, min(1.0, level))
Clamp(level) ==
    IF level.num > level.den THEN Level(1, 1)
    ELSE IF level.num < 0 THEN Level(0, 1)
    ELSE level

\* The ring np: the first lit pixels show color at intensity percent, the
\* rest are (0, 0, 0).  Every ring with no lit pixel is AllOff.
AllOff == [lit |-> 0, color |-> "off", intensity |-> 0]

Ring(lit, color, intensity) ==
    IF lit <= 0 \/ intensity = 0 THEN AllOff
    ELSE [lit |-> IF lit > num_pixels THEN num_pixels ELSE lit,
          color |-> color, intensity |-> intensity]

\* int(num_pixels * level)
lit_pixels(level) == Trunc(num_pixels * level.num, level.den)

\* set_color_all(r, g, b, brightness) of the idle animation's cyan.
set_color_all(color, intensity) == Ring(num_pixels, color, intensity)

\* Gauge.set_gauge_level: the Gauge fields it writes.
set_gauge_level(g, level) ==
    [g EXCEPT !.in_idle_mode = FALSE, !.flashed = FALSE, !.level = Clamp(level)]

\* Gauge.set_gauge_level: the ring it writes.
LevelBar(cf, level) ==
    LET clamped == Clamp(level)
        color == IF LevelBelow(clamped, cf.led_green_breakpoint) THEN "green"
                 ELSE IF LevelBelow(clamped, cf.led_yellow_breakpoint) THEN "yellow"
                 ELSE "red"
    IN  Ring(lit_pixels(clamped), color, 100)

\* ------------------------------------------------------------- the state
VARIABLES
    conf,           \* the dict loaded from config.json
    gauge,          \* the fields of the Gauge object
    np,             \* the LED ring
    display,        \* what the OLED shows: "text", "blank" or a glyph key
    main_pc,        \* where main() is: "set_schemas", "gauge_sweep", "running"
    sweep_i,        \* set_gauge_level calls gauge_sweep has made
    sim_pc,         \* where sim_task is: "loop", "except" (line 395), "closed"
    sim_sleep,      \* whole seconds left of sim_task's asyncio.sleep(1)
    is_idle_mode,   \* sim_task's local
    last_gear,      \* sim_task's local: <<>> for None, else <<gear>>
    game_id,        \* sim_task's local
    data,           \* sim_task's local: the datagram last received
    last_data_age,  \* time.time() - last_data_time, counted up to idle_timeout + 1
    idle_tasks,     \* the run_idle_animation tasks created, in order
    rx,             \* history: what sim_task's latest iteration did
    since_decode,   \* history: seconds since a packet last decoded, up to idle_timeout + 1
    idle_entries    \* history: entries into idle mode since a packet last decoded

vars == <<conf, gauge, np, display, main_pc, sweep_i, sim_pc, sim_sleep,
          is_idle_mode, last_gear, game_id, data, last_data_age, idle_tasks,
          rx, since_decode, idle_entries>>

\* The configurations of the model: levels are percentages.
Confs ==
    {[led_green_breakpoint |-> 50, led_yellow_breakpoint |-> 80,
      led_redline_flash_above |-> 90, allow_idle_animations |-> a] : a \in BOOLEAN}

EmptyDict == [k \in {} |-> ""]

\* Gauge.__init__ with the idle flag set from the start: the variant C15
\* rules out.
GaugeInitIdle ==
    [max_rpm |-> default_max_rpm, level |-> Level(0, 1), flashed |-> FALSE,
     flash_cycles |-> 0, increasing |-> TRUE, in_idle_mode |-> TRUE,
     detected_game |-> None, game_schemas |-> "", gear_map |-> EmptyDict]

\* Gauge.__init__
GaugeInit ==
    [max_rpm |-> default_max_rpm, level |-> Level(0, 1), flashed |-> FALSE,
     flash_cycles |-> 0, increasing |-> TRUE, in_idle_mode |-> FALSE,
     detected_game |-> None, game_schemas |-> "", gear_map |-> EmptyDict]

\* rx: recv is "packet" or "none"; tried the schemas detect_game evaluated;
\* decoded whether unpack_game_data returned the packet's telemetry; exc the
\* exception the inner try ended with; entered_idle whether the iteration
\* switched to idle mode; locked_before and was_idle are detected_game and
\* is_idle_mode as the iteration found them; overdue whether it received
\* nothing more than idle_timeout after the last decoded packet.
NoRx == [recv |-> "none", tried |-> 0, decoded |-> FALSE, exc |-> "",
         entered_idle |-> FALSE, locked_before |-> None, was_idle |-> FALSE,
         overdue |-> FALSE]

\* main() up to gauge = Gauge(): the update check has left its message on
\* the display and the ring has never been written.
Init ==
    /\ conf \in Confs
    /\ gauge = GaugeInit
    /\ np = AllOff
    /\ display = "text"
    /\ main_pc = "set_schemas"
    /\ sweep_i = 0
    /\ sim_pc = "loop"
    /\ sim_sleep = 0
    /\ is_idle_mode = FALSE
    /\ last_gear = <<>>
    /\ game_id = None
    /\ data = <<>>
    /\ last_data_age = 0
    /\ idle_tasks = <<>>
    /\ rx = NoRx
    /\ since_decode = 0
    /\ idle_entries = 0

\* ---------------------------------------------------------------- main()
\* gauge.set_schemas(schemas)
set_schemas(schemas) ==
    /\ main_pc = "set_schemas"
    /\ gauge' = [gauge EXCEPT !.game_schemas = schemas]
    /\ main_pc' = "gauge_sweep"
    /\ UNCHANGED <<conf, np, display, sweep_i, sim_pc, sim_sleep, is_idle_mode,
                   last_gear, game_id, data, last_data_age, idle_tasks, rx,
                   since_decode, idle_entries>>

\* The level, in percent, of gauge_sweep's call number i (from 0): up through
\* range(0, 101, 4), then down through range(101, 0, -4).
SweepUp == (100 \div 4) + 1
SweepCalls == 2 * SweepUp
SweepLevel(i) == IF i < SweepUp THEN 4 * i ELSE 101 - 4 * (i - SweepUp)

\* One set_gauge_level call of gauge.gauge_sweep(1).
gauge_sweep ==
    /\ main_pc = "gauge_sweep"
    /\ sweep_i < SweepCalls
    /\ gauge' = set_gauge_level(gauge, Level(SweepLevel(sweep_i), 100))
    /\ np' = LevelBar(conf, Level(SweepLevel(sweep_i), 100))
    /\ sweep_i' = sweep_i + 1
    /\ UNCHANGED <<conf, display, main_pc, sim_pc, sim_sleep, is_idle_mode,
                   last_gear, game_id, data, last_data_age, idle_tasks, rx,
                   since_decode, idle_entries>>

\* main() creates sim_task and check_redline and sleeps; sim_task runs to
\* its loop: last_data_time = time.time(), is_idle_mode = False, last_gear = None.
create_tasks ==
    /\ main_pc = "gauge_sweep"
    /\ sweep_i = SweepCalls
    /\ main_pc' = "running"
    /\ last_data_age' = 0
    /\ is_idle_mode' = FALSE
    /\ last_gear' = <<>>
    /\ sim_pc' = "loop"
    /\ since_decode' = 0
    /\ UNCHANGED <<conf, gauge, np, display, sweep_i, sim_sleep, game_id, data,
                   idle_tasks, rx, idle_entries>>

\* -------------------------------------------------------------- sim_task
\* str(gear) for the gears the glyph maps know.
Str(n) ==
    IF n = -1 THEN "-1" ELSE IF n = 0 THEN "0" ELSE IF n = 1 THEN "1"
    ELSE IF n = 2 THEN "2" ELSE "other"

\* The keys of fonts.digits.digits.
Digits == {"R", "N", "1", "2", "3", "4", "5", "6"}

\* What one loop iteration works on: the Gauge, the outputs and the locals.
SimState ==
    [gauge |-> gauge, np |-> np, display |-> display, is_idle_mode |-> is_idle_mode,
     last_gear |-> last_gear, game_id |-> game_id, data |-> data,
     last_data_age |-> last_data_age,
     idle_tasks |-> idle_tasks, data_received |-> FALSE, entered_idle |-> FALSE]

\* Lines 337-366: a decoded gear and rpm drive the gauge.
ProcessTelemetry(st, gear, rpm) ==
    LET fields == SchemaOf(GameSchemas(st.gauge), st.gauge.detected_game).fields
        st1 == IF "max_rpm" \notin DOMAIN fields /\ rpm > st.gauge.max_rpm
               THEN [st EXCEPT !.gauge.max_rpm = rpm] ELSE st
        st2 == [st1 EXCEPT !.last_data_age = 0, !.data_received = TRUE]
        st3 == IF st2.is_idle_mode
               THEN [st2 EXCEPT !.is_idle_mode = FALSE, !.gauge.in_idle_mode = FALSE]
               ELSE st2
    IN  IF st3.gauge.max_rpm = 0 THEN [exc |-> "ZeroDivisionError", st |-> st3]
        ELSE LET rpm_normalized == Divide(rpm, st3.gauge.max_rpm)
                 st4 == [st3 EXCEPT !.gauge.level = rpm_normalized]
                 st5 == IF LevelBelow(rpm_normalized, conf.led_redline_flash_above)
                        THEN [st4 EXCEPT !.gauge = set_gauge_level(@, rpm_normalized),
                                         !.np = LevelBar(conf, rpm_normalized)]
                        ELSE st4
                 gear_str == Str(gear)
             IN  IF <<gear>> = st5.last_gear THEN [exc |-> "", st |-> st5]
                 ELSE IF gear_str \notin DOMAIN st5.gauge.gear_map
                         \/ st5.gauge.gear_map[gear_str] \notin Digits
                 THEN [exc |-> "KeyError", st |-> st5]
                 ELSE [exc |-> "",
                       st |-> [st5 EXCEPT !.display = st5.gauge.gear_map[gear_str],
                                          !.last_gear = <<gear>>]]

\* Lines 335-366: after detect_game returned game id d.ret with the Gauge
\* fields d.g, unpack_game_data returns or raises u.
AfterUnpack(st, d, u) ==
    IF Raised(u)
    THEN [exc |-> u.exc, st |-> st, tried |-> d.tried, decoded |-> FALSE]
    ELSE IF Len(u.val) # 2
    THEN \* gear, rpm = <a tuple of three>
         [exc |-> "ValueError", st |-> st, tried |-> d.tried, decoded |-> TRUE]
    ELSE IF u.val[1] = <<>> \/ u.val[2] = <<>>
    THEN [exc |-> "", st |-> st, tried |-> d.tried, decoded |-> FALSE]
    ELSE [tried |-> d.tried, decoded |-> TRUE] @@ ProcessTelemetry(st, u.val[1][1], u.val[2][1])

\* Lines 331-366: detect_game has returned d on the datagram received.
AfterDetect(st, datagram, d) ==
    IF d.ret = None
    THEN {[exc |-> "", tried |-> d.tried, decoded |-> FALSE,
           st |-> [st EXCEPT !.gauge = d.g, !.game_id = d.ret, !.data = datagram]]}
    ELSE {AfterUnpack([st EXCEPT !.gauge = d.g, !.game_id = d.ret, !.data = datagram], d, u) :
             u \in {unpack_game_data(d.g, d.ret, datagram)}}

\* Lines 327-366, the inner try, as the set of its one outcome: exc is the
\* exception the body ends with ("" for none), tried the schemas detect_game
\* evaluated, decoded whether unpack_game_data returned the packet's telemetry.
TryBody(st, recv) ==
    IF recv.exc # ""
    THEN {[exc |-> recv.exc, st |-> st, tried |-> 0, decoded |-> FALSE]}
    ELSE UNION {AfterDetect(st, recv.val, d) : d \in {detect_game(st.gauge, recv.val)}}

\* The handlers with line 393 missing, so that every exception but OSError
\* reaches line 396 and ends the loop: the variant C5 rules out.
HandlerOuter(exc) ==
    IF exc = "" THEN "none"
    ELSE IF exc = "OSError" THEN "pass"
    ELSE "outer"

\* Which handler takes an exception of the inner try: "pass" (line 368),
\* "retry" (line 393, then asyncio.sleep(1)) or "outer" (line 396).
Handler(exc) ==
    IF exc = "" THEN "none"
    ELSE IF exc = "OSError" THEN "pass"
    ELSE "retry"

\* The switch to idle mode with lines 378-379 missing: the variant C8 rules out.
IdleCheckKeepsLock(st) ==
    IF ~st.data_received /\ ~st.is_idle_mode /\ st.last_data_age > idle_timeout
    THEN LET idle == [st EXCEPT !.is_idle_mode = TRUE,
                                !.gauge.in_idle_mode = TRUE,
                                !.display = "blank",
                                !.entered_idle = TRUE]
         IN  IF conf.allow_idle_animations
             THEN [idle EXCEPT !.idle_tasks = Append(@, [pc |-> "start", i |-> 0])]
             ELSE [idle EXCEPT !.np = set_color_all("off", 0)]
    ELSE st

\* The switch to idle mode without the test of is_idle_mode in line 374, so
\* that it is made again on every silent iteration: the variant C16 rules out.
IdleCheckRespawn(st) ==
    IF ~st.data_received /\ st.last_data_age > idle_timeout
    THEN LET idle == [st EXCEPT !.is_idle_mode = TRUE,
                                !.gauge.in_idle_mode = TRUE,
                                !.gauge.detected_game = None,
                                !.gauge.max_rpm = default_max_rpm,
                                !.display = "blank",
                                !.entered_idle = TRUE]
         IN  IF conf.allow_idle_animations
             THEN [idle EXCEPT !.idle_tasks = Append(@, [pc |-> "start", i |-> 0])]
             ELSE [idle EXCEPT !.np = set_color_all("off", 0)]
    ELSE st

\* Lines 373-388: the switch to idle mode.
IdleCheck(st) ==
    IF ~st.data_received /\ ~st.is_idle_mode /\ st.last_data_age > idle_timeout
    THEN LET idle == [st EXCEPT !.is_idle_mode = TRUE,
                                !.gauge.in_idle_mode = TRUE,
                                !.gauge.detected_game = None,
                                !.gauge.max_rpm = default_max_rpm,
                                !.display = "blank",
                                !.entered_idle = TRUE]
         IN  IF conf.allow_idle_animations
             THEN [idle EXCEPT !.idle_tasks = Append(@, [pc |-> "start", i |-> 0])]
             ELSE [idle EXCEPT !.np = set_color_all("off", 0)]
    ELSE st

Min(a, b) == IF a < b THEN a ELSE b

\* One iteration of sim_task's loop, from the top of the loop to its await:
\* recv is what sock.recv(512) does.
sim_task(recv) ==
    /\ main_pc = "running"
    /\ sim_pc = "loop" \/ (sim_pc = "except" /\ sim_sleep = 0)
    /\ \E body \in TryBody(SimState, recv) :
       \E st \in {IF Handler(body.exc) \in {"none", "pass"}
                  THEN IdleCheck(body.st) ELSE body.st} :
           /\ gauge' = st.gauge
           /\ np' = st.np
           /\ display' = st.display
           /\ is_idle_mode' = st.is_idle_mode
           /\ last_gear' = st.last_gear
           /\ game_id' = st.game_id
           /\ data' = st.data
           /\ last_data_age' = st.last_data_age
           /\ idle_tasks' = st.idle_tasks
           /\ sim_pc' = IF Handler(body.exc) = "retry" THEN "except"
                        ELSE IF Handler(body.exc) = "outer" THEN "closed" ELSE "loop"
           /\ sim_sleep' = IF Handler(body.exc) = "retry" THEN 1 ELSE 0
           /\ rx' = [recv |-> IF recv.exc # "" THEN "none" ELSE "packet",
                     tried |-> body.tried, decoded |-> body.decoded,
                     exc |-> body.exc, entered_idle |-> st.entered_idle,
                     locked_before |-> gauge.detected_game, was_idle |-> is_idle_mode,
                     overdue |-> recv.exc # "" /\ since_decode > idle_timeout]
           /\ since_decode' = IF body.decoded THEN 0 ELSE since_decode
           /\ idle_entries' = IF body.decoded THEN 0
                              ELSE IF st.entered_idle THEN Min(idle_entries + 1, 2)
                              ELSE idle_entries
    /\ UNCHANGED <<conf, main_pc, sweep_i>>

\* --------------------------------------------------------- check_redline
\* The loop body with flash_cycles reset one cycle early, after an odd
\* number of cycles: the variant C18 rules out.
redline_tick_short_wrap(cf, g, ring) ==
    IF g.in_idle_mode THEN [g |-> g, np |-> ring]
    ELSE IF ~LevelBelow(g.level, cf.led_redline_flash_above)
    THEN [g |-> [g EXCEPT !.flash_cycles =
                    IF @ + 1 >= flash_max_cycles - 1 THEN 0 ELSE @ + 1],
          np |-> IF g.flash_cycles % 2 = 0 THEN AllOff
                 ELSE Ring(lit_pixels(g.level), "red", 100)]
    ELSE [g |-> [g EXCEPT !.flash_cycles = 0], np |-> ring]

\* The loop body without the test of in_idle_mode in line 247: the variant
\* C19 rules out.
redline_tick_in_idle(cf, g, ring) ==
    IF ~LevelBelow(g.level, cf.led_redline_flash_above)
    THEN [g |-> [g EXCEPT !.flash_cycles =
                    IF @ + 1 >= flash_max_cycles THEN 0 ELSE @ + 1],
          np |-> IF g.flash_cycles % 2 = 0 THEN AllOff
                 ELSE Ring(lit_pixels(g.level), "red", 100)]
    ELSE [g |-> [g EXCEPT !.flash_cycles = 0], np |-> ring]

\* The body of Gauge.check_redline's loop (lines 246-283) under the
\* configuration cf: the Gauge fields and the ring it leaves.
redline_tick(cf, g, ring) ==
    IF g.in_idle_mode THEN [g |-> g, np |-> ring]
    ELSE IF ~LevelBelow(g.level, cf.led_redline_flash_above)
    THEN [g |-> [g EXCEPT !.flash_cycles =
                    IF @ + 1 >= flash_max_cycles THEN 0 ELSE @ + 1],
          np |-> IF g.flash_cycles % 2 = 0 THEN AllOff
                 ELSE Ring(lit_pixels(g.level), "red", 100)]
    ELSE [g |-> [g EXCEPT !.flash_cycles = 0], np |-> ring]

\* One iteration of Gauge.check_redline's loop (lines 245-286).
check_redline ==
    /\ main_pc = "running"
    /\ \E r \in {redline_tick(conf, gauge, np)} :
          /\ gauge' = r.g
          /\ np' = r.np
    /\ UNCHANGED <<conf, display, main_pc, sweep_i, sim_pc, sim_sleep, is_idle_mode,
                   last_gear, game_id, data, last_data_age, idle_tasks, rx,
                   since_decode, idle_entries>>

\* ----------------------------------------------------- run_idle_animation
\* Task k runs from one await to the next.  "start": created, not yet run;
\* "in" / "out": asleep after step i of breathing in / out; "done": returned.
\* A step that finds in_idle_mode false breaks out of both loops and runs
\* the finally clause.
\* Where the task goes from state t while in_idle_mode stays true: up
\* through range(0, 101, 5), down through range(100, -1, -5), and again.
animation_next(t) ==
    IF t.pc = "start" THEN [pc |-> "in", i |-> 0]
    ELSE IF t.pc = "in" /\ t.i < 100 THEN [pc |-> "in", i |-> t.i + 5]
    ELSE IF t.pc = "in" THEN [pc |-> "out", i |-> 100]
    ELSE IF t.i > 0 THEN [pc |-> "out", i |-> t.i - 5]
    ELSE [pc |-> "in", i |-> 0]

\* The task without the tests of lines 414 and 422, so that in_idle_mode is
\* read by the while of line 411 only, once a breathing cycle is complete:
\* the variant C17 rules out.
animation_step_whole_cycle(g, ring, t) ==
    IF t.pc = "start"
    THEN [g |-> [g EXCEPT !.in_idle_mode = TRUE],
          np |-> set_color_all("cyan", animation_next(t).i), t |-> animation_next(t)]
    ELSE IF (t.pc = "out" /\ t.i = 0) /\ ~g.in_idle_mode
    THEN [g |-> g, np |-> ring, t |-> [pc |-> "done", i |-> t.i]]
    ELSE [g |-> g, np |-> set_color_all("cyan", animation_next(t).i), t |-> animation_next(t)]

\* The task in state t runs from its await to the next (lines 404-432): the
\* Gauge fields, the ring and the task state it leaves.
animation_step(g, ring, t) ==
    LET in_idle == IF t.pc = "start" THEN TRUE ELSE g.in_idle_mode
        next == animation_next(t)
    IN  IF in_idle
        THEN [g |-> [g EXCEPT !.in_idle_mode = TRUE],
              np |-> set_color_all("cyan", next.i), t |-> next]
        ELSE [g |-> [g EXCEPT !.in_idle_mode = FALSE],
              np |-> ring, t |-> [pc |-> "done", i |-> t.i]]

run_idle_animation(k) ==
    /\ k \in 1..Len(idle_tasks)
    /\ idle_tasks[k].pc # "done"
    /\ \E r \in {animation_step(gauge, np, idle_tasks[k])} :
          /\ gauge' = r.g
          /\ np' = r.np
          /\ idle_tasks' = [idle_tasks EXCEPT ![k] = r.t]
    /\ UNCHANGED <<conf, display, main_pc, sweep_i, sim_pc, sim_sleep, is_idle_mode,
                   last_gear, game_id, data, last_data_age, rx, since_decode, idle_entries>>

\* ------------------------------------------------------------- the clock
\* time.time() moves on by one second.
Tick ==
    /\ main_pc = "running"
    /\ last_data_age' = Min(last_data_age + 1, idle_timeout + 1)
    /\ since_decode' = Min(since_decode + 1, idle_timeout + 1)
    /\ sim_sleep' = IF sim_sleep > 0 THEN sim_sleep - 1 ELSE 0
    /\ UNCHANGED <<conf, gauge, np, display, main_pc, sweep_i, sim_pc, is_idle_mode,
                   last_gear, game_id, data, idle_tasks, rx, idle_entries>>

Next ==
    \/ \E schemas \in SchemaFiles : set_schemas(schemas)
    \/ gauge_sweep
    \/ create_tasks
    \/ \E recv \in SockRecv : sim_task(recv)
    \/ check_redline
    \/ \E k \in 1..Len(idle_tasks) : run_idle_animation(k)
    \/ Tick

Spec == Init /\ [][Next]_vars

\* ------------------------------------------------- detect_game on its own
\* Gauge.detect_game applied to every packet of the bounds, from the state
\* in which sim_task's loop starts.
DetectInit ==
    /\ conf \in {c \in Confs : c.allow_idle_animations}
    /\ gauge \in {[set_gauge_level(GaugeInit, Level(1, 100)) EXCEPT !.game_schemas = f] :
                     f \in SchemaFiles}
    /\ np = AllOff
    /\ display = "text"
    /\ main_pc = "running"
    /\ sweep_i = SweepCalls
    /\ sim_pc = "loop"
    /\ sim_sleep = 0
    /\ is_idle_mode = FALSE
    /\ last_gear = <<>>
    /\ game_id = None
    /\ data = <<>>
    /\ last_data_age = 0
    /\ idle_tasks = <<>>
    /\ rx = NoRx
    /\ since_decode = 0
    /\ idle_entries = 0

\* Lines 328-331: game_id = gauge.detect_game(data) on the datagram p.
detect_call(p) ==
    /\ \E d \in {detect_game(gauge, p)} :
          /\ gauge' = d.g
          /\ game_id' = d.ret
          /\ rx' = [NoRx EXCEPT !.recv = "packet", !.tried = d.tried,
                                !.locked_before = gauge.detected_game]
    /\ data' = p
    /\ UNCHANGED <<conf, np, display, main_pc, sweep_i, sim_pc, sim_sleep, is_idle_mode,
                   last_gear, last_data_age, idle_tasks, since_decode, idle_entries>>

\* Lines 378-379: the idle switch clears the lock.
idle_reset ==
    /\ gauge.detected_game # None
    /\ gauge' = [gauge EXCEPT !.detected_game = None, !.max_rpm = default_max_rpm]
    /\ rx' = [NoRx EXCEPT !.entered_idle = TRUE, !.locked_before = gauge.detected_game]
    /\ UNCHANGED <<conf, np, display, main_pc, sweep_i, sim_pc, sim_sleep, is_idle_mode,
                   last_gear, game_id, data, last_data_age, idle_tasks, since_decode,
                   idle_entries>>

DetectNext ==
    \/ \E p \in Packets : detect_call(p)
    \/ idle_reset

DetectSpec == DetectInit /\ [][DetectNext]_vars

\* ------------------------------------------- the Gauge tasks on their own
\* The Gauge with check_redline and run_idle_animation while nothing arrives
\* on the socket and Gauge.set_gauge_level is called from outside at any
\* moment, as gauge_sweep calls it.
CallerLevels == {Level(1, 100), Level(90, 100), Level(1, 1)}

GaugeTasksInit ==
    /\ conf \in Confs
    /\ gauge = [set_gauge_level(GaugeInit, Level(1, 100)) EXCEPT !.game_schemas = "good"]
    /\ np = AllOff
    /\ display = "text"
    /\ main_pc = "running"
    /\ sweep_i = SweepCalls
    /\ sim_pc = "loop"
    /\ sim_sleep = 0
    /\ is_idle_mode = FALSE
    /\ last_gear = <<>>
    /\ game_id = None
    /\ data = <<>>
    /\ last_data_age = 0
    /\ idle_tasks = <<>>
    /\ rx = NoRx
    /\ since_decode = 0
    /\ idle_entries = 0

\* gauge.set_gauge_level(level)
call_set_gauge_level(level) ==
    /\ main_pc = "running"
    /\ gauge' = set_gauge_level(gauge, level)
    /\ np' = LevelBar(conf, level)
    /\ UNCHANGED <<conf, display, main_pc, sweep_i, sim_pc, sim_sleep, is_idle_mode,
                   last_gear, game_id, data, last_data_age, idle_tasks, rx,
                   since_decode, idle_entries>>

GaugeTasksNext ==
    \/ \E level \in CallerLevels : call_set_gauge_level(level)
    \/ sim_task(NoData)
    \/ check_redline
    \/ \E k \in 1..Len(idle_tasks) : run_idle_animation(k)
    \/ Tick

GaugeTasksSpec == GaugeTasksInit /\ [][GaugeTasksNext]_vars

\* ------------------------------------------------------------ properties
\* The telemetry of the packet sim_task's latest iteration decoded.
TickTelemetry == unpack_game_data(gauge, game_id, data).val
TickRpm == TickTelemetry[2][1]
TickMaxRpm == TickTelemetry[3]

\* The level a decoded packet stands for.
TickLevel == Divide(TickRpm, gauge.max_rpm)

LevelIn01(level) == 0 <= level.num /\ level.num <= level.den

\* C1: a packet that decodes while the gauge is idle ends idle mode in the
\* iteration that receives it: is_idle_mode and gauge.in_idle_mode are false
\* after it and last_data_time is the time of that packet.
C1_IdleToActive ==
    (rx.recv = "packet" /\ rx.decoded /\ rx.was_idle)
        => (~is_idle_mode /\ ~gauge.in_idle_mode /\ last_data_age = since_decode)

\* C2: once a game is locked, detected_game changes only by sim_task's switch
\* to idle mode, which clears it, and every detect_game call made with a lock
\* returns the locked id without evaluating a schema.
C2_LatchStep ==
    /\ (gauge.detected_game # None /\ gauge'.detected_game # gauge.detected_game)
          => (gauge'.detected_game = None /\ rx'.entered_idle
              /\ ~is_idle_mode /\ is_idle_mode')
    /\ (rx'.recv = "packet" /\ rx'.locked_before # None)
          => (game_id' = rx'.locked_before /\ rx'.tried = 0)

C2_Latch == [][C2_LatchStep]_vars

\* A packet only Game B's layout accepts, received while Game A is locked.
C2_Witness ==
    /\ rx.recv = "packet"
    /\ rx.locked_before = "gameA"
    /\ game_id = "gameA"
    /\ data = <<20000, 15, 20000>>

\* The schema entries of the registry, by position.
Entries == 1..Len(GameSchemas(gauge))
EntryFields(i) == GameSchemas(gauge)[i].schema.fields

\* Gear and rpm of entry i decode from the packet and lie in the bounds.
InBounds(gear, rpm) ==
    /\ ~Raised(gear)
    /\ ~Raised(rpm)
    /\ gear.val \in {-1, 0, 1, 2, 3, 4, 5, 6, 7, 8, 9, 10}
    /\ 0 < rpm.val
    /\ rpm.val < 20000

AcceptedByBounds(i) ==
    InBounds(DecodeScaled(EntryFields(i).gear, data), DecodeScaled(EntryFields(i).rpm, data))

\* Entry i also has a gear map and a max_rpm field, if it declares one, that
\* decodes from the packet.
AcceptedWhole(i) ==
    /\ AcceptedByBounds(i)
    /\ "map" \in DOMAIN EntryFields(i).gear
    /\ "max_rpm" \in DOMAIN EntryFields(i) => ~Raised(DecodePlain(EntryFields(i).max_rpm, data))

UnlockedCall == rx.recv = "packet" /\ rx.locked_before = None

\* C3 as stated: an unlocked detect_game call locks and returns the first
\* entry, in registry order, whose gear and rpm are in the bounds.
C3_FirstInBounds ==
    (UnlockedCall /\ \E i \in Entries : AcceptedByBounds(i))
        => LET first == CHOOSE i \in Entries :
                            AcceptedByBounds(i) /\ \A j \in 1..(i - 1) : ~AcceptedByBounds(j)
           IN  game_id = GameSchemas(gauge)[first].id
               /\ gauge.detected_game = game_id

\* C3: an unlocked detect_game call returns the first entry, in registry
\* order, whose gear and rpm are in the bounds, which has a gear map and whose
\* max_rpm field, if declared, decodes; it leaves that entry locked; and it
\* returns None if there is no such entry.
C3_FirstAccepted ==
    UnlockedCall
        => IF \E i \in Entries : AcceptedWhole(i)
           THEN LET first == CHOOSE i \in Entries :
                                 AcceptedWhole(i) /\ \A j \in 1..(i - 1) : ~AcceptedWhole(j)
                IN  game_id = GameSchemas(gauge)[first].id
                    /\ gauge.detected_game = game_id
                    /\ rx.tried = first
           ELSE game_id = None

\* Game A's layout reads the packet out of the bounds and Game B, second in
\* the order, is locked.
C3_Witness ==
    /\ UnlockedCall
    /\ gauge.game_schemas = "good"
    /\ ~AcceptedByBounds(1)
    /\ game_id = "gameB"
    /\ gauge.detected_game = "gameB"

\* The decode of entry i raises: the entry is malformed or the packet is
\* shorter than one of its fields.
FieldKeys(f) == IF f = "gear" THEN {"format", "offset", "multiplier", "map"}
                ELSE IF f = "rpm" THEN {"format", "offset", "multiplier"}
                ELSE {"format", "offset"}

MalformedEntry(i) ==
    \/ ~({"gear", "rpm"} \subseteq DOMAIN EntryFields(i))
    \/ \E f \in DOMAIN EntryFields(i) :
          \/ ~(FieldKeys(f) \subseteq DOMAIN EntryFields(i)[f])
          \/ EntryFields(i)[f].format \notin Formats

TooShortFor(i) ==
    \E f \in DOMAIN EntryFields(i) :
        EntryFields(i)[f].offset + calcsize(EntryFields(i)[f].format) > Len(data)

DecodeRaises(i) == MalformedEntry(i) \/ TooShortFor(i)

\* C4: in an unlocked detect_game call an entry whose decode raises is a
\* non-match and nothing more: it is not left locked, and the entries after
\* it are tried up to the one returned.
C4_RaisingIsNonMatch ==
    UnlockedCall
        => /\ \A i \in Entries :
                 DecodeRaises(i) => gauge.detected_game # GameSchemas(gauge)[i].id
           /\ rx.tried = IF game_id = None THEN Len(GameSchemas(gauge))
                         ELSE CHOOSE i \in Entries : GameSchemas(gauge)[i].id = game_id

\* C5: nothing an iteration of sim_task's loop runs into closes the loop:
\* it is at the top of the loop or in the sleep of line 395, that sleep is
\* at most a second, and once it is over the next iteration has an outcome
\* on whatever the socket then does.
C5_LoopGoesOn ==
    /\ sim_pc \in {"loop", "except"}
    /\ sim_sleep \in {0, 1}
    /\ sim_pc = "loop" => sim_sleep = 0
    /\ (main_pc = "running" /\ sim_sleep = 0)
          => \A recv \in SockRecv : TryBody(SimState, recv) # {}

\* A locked game's packet came too short, the handler of line 393 has slept,
\* and the loop is about to run again.
C5_Witness ==
    /\ rx.exc = "struct.error"
    /\ rx.locked_before # None
    /\ sim_pc = "except"
    /\ sim_sleep = 0

\* C6: an iteration switches to idle mode only when more than idle_timeout
\* has passed since a packet last decoded.
C6_IdleOnlyAfterSilence == rx.entered_idle => since_decode > idle_timeout

\* C7: an iteration that receives nothing more than idle_timeout after the
\* last decoded packet finds the switch to idle mode made once for this
\* silence, by itself or by an earlier iteration.
C7_IdleOncePerSilence == rx.overdue => idle_entries = 1

\* C8: the step that switches to idle mode leaves detected_game None and
\* max_rpm 3000, so that detect_game goes through the schemas on any packet,
\* leaves the display blank, and either creates one animation task and
\* leaves the ring to it or sets the ring to off.
C8_IdleEntryStep ==
    (~is_idle_mode /\ is_idle_mode')
        => /\ rx'.entered_idle
           /\ gauge'.in_idle_mode
           /\ gauge'.detected_game = None
           /\ gauge'.max_rpm = default_max_rpm
           /\ \A p \in Datagrams :
                 \/ detect_game(gauge', p).tried = Len(GameSchemas(gauge'))
                 \/ detect_game(gauge', p).ret # None /\ detect_game(gauge', p).tried >= 1
           /\ display' = "blank"
           /\ IF conf.allow_idle_animations
              THEN idle_tasks' = Append(idle_tasks, [pc |-> "start", i |-> 0]) /\ np' = np
              ELSE idle_tasks' = idle_tasks /\ np' = AllOff

C8_IdleEntry == [][C8_IdleEntryStep]_vars

\* The switch to idle mode of an iteration that found a game locked.
C8_Witness ==
    /\ rx.entered_idle
    /\ rx.locked_before # None
    /\ gauge.detected_game = None

\* C9: the iteration that decodes a packet renders its level: below
\* led_redline_flash_above the ring shows the colour bar of that level and the
\* stored level is that level; from it on the stored level is one that
\* check_redline flashes.  Stated for the rings no animation task writes to.
C9_RenderPerPacket ==
    (rx.decoded /\ idle_tasks = <<>>)
        => IF LevelBelow(TickLevel, conf.led_redline_flash_above)
           THEN /\ np = LevelBar(conf, TickLevel)
                /\ gauge.level = Clamp(TickLevel)
           ELSE ~LevelBelow(gauge.level, conf.led_redline_flash_above)

\* C10: the stored level is in [0, 1], and it is 1 after a packet whose rpm
\* is above max_rpm or whose max_rpm field decodes to 0.
C10_LevelClamped ==
    /\ LevelIn01(gauge.level)
    /\ (rx.decoded /\ (TickMaxRpm = <<0>> \/ TickRpm > gauge.max_rpm))
          => gauge.level = Level(1, 1)

\* The gear of the packet sim_task's latest iteration decoded, and whether
\* the schema it decoded under declares a max_rpm field.
TickGear == TickTelemetry[1][1]
TickDeclaresMax == "max_rpm" \in DOMAIN SchemaOf(GameSchemas(gauge), game_id).fields

Max(a, b) == IF a > b THEN a ELSE b

\* C11: for a locked schema without a max_rpm field, the iteration that
\* decodes a packet leaves max_rpm at the larger of the packet's rpm and what
\* max_rpm was (3000 if the packet made the lock), and max_rpm does not
\* decrease while the lock stays.
C11_AdaptiveStep ==
    /\ (rx'.decoded /\ ~TickDeclaresMax')
          => gauge'.max_rpm =
                Max(IF rx'.locked_before = None THEN default_max_rpm ELSE gauge.max_rpm,
                    TickRpm')
    /\ (gauge.detected_game # None /\ gauge'.detected_game = gauge.detected_game)
          => gauge'.max_rpm >= gauge.max_rpm

C11_AdaptiveMaxRpm == [][C11_AdaptiveStep]_vars

\* C12: the iteration that decodes a packet calls display_gear when, and only
\* when, the packet's gear is not the gear last rendered: then the display
\* shows the glyph of that gear, otherwise the display is left as it is, and
\* in both cases the gear last rendered is the packet's.
C12_RedrawStep ==
    rx'.decoded
        => /\ last_gear' = <<TickGear'>>
           /\ <<TickGear'>> # last_gear => display' = GearMap[Str(TickGear')]
           /\ <<TickGear'>> = last_gear => display' = display

C12_RedrawOnChange == [][C12_RedrawStep]_vars

\* The number in the packet's max_rpm slot under the schema returned.
PacketMaxRpm ==
    Trunc(data[SchemaOf(GameSchemas(gauge), game_id).fields.max_rpm.offset + 1], 10)

LocksWithMaxField == UnlockedCall /\ game_id # None /\ TickDeclaresMax

C13_LockStep ==
    LocksWithMaxField'
        => gauge'.max_rpm = IF PacketMaxRpm' = 0 THEN gauge.max_rpm ELSE PacketMaxRpm'

C14_NoMatchStep ==
    (rx'.recv = "packet" /\ game_id' = None)
        => /\ gauge'.detected_game = None
           /\ gauge'.gear_map = gauge.gear_map
           /\ gauge'.max_rpm = gauge.max_rpm
           /\ gauge'.level = gauge.level
           /\ last_gear' = last_gear
           /\ last_data_age' >= last_data_age

C14_NoMatchNoChange == [][C14_NoMatchStep]_vars

\* Before sim_task's first iteration.
BeforeFirstIteration == rx = NoRx

\* C15 as stated: before the first iteration the gauge is in idle mode with
\* max_rpm 3000.
C15_StartsIdle ==
    BeforeFirstIteration
        => (is_idle_mode \/ gauge.in_idle_mode) /\ gauge.max_rpm = default_max_rpm

\* C15: before the first iteration the gauge is not in idle mode: both idle
\* flags are false, no animation task exists, no game is locked and max_rpm
\* is 3000.
C15_StartsNotIdle ==
    BeforeFirstIteration
        => /\ ~is_idle_mode
           /\ ~gauge.in_idle_mode
           /\ idle_tasks = <<>>
           /\ gauge.detected_game = None
           /\ gauge.max_rpm = default_max_rpm

\* main() has created the tasks and sim_task has not yet run an iteration.
C15_Witness == main_pc = "running" /\ BeforeFirstIteration

\* The animation tasks that have not returned.
AliveTasks == {k \in 1..Len(idle_tasks) : idle_tasks[k].pc # "done"}

\* C16: at most one animation task is alive, and a task is created only by
\* the step that switches to idle mode, one per switch, when every earlier
\* task has returned.
C16_SpawnStep ==
    Len(idle_tasks') > Len(idle_tasks)
        => /\ Len(idle_tasks') = Len(idle_tasks) + 1
           /\ ~is_idle_mode /\ is_idle_mode'
           /\ AliveTasks = {}

C16_OneAnimation == [](Cardinality(AliveTasks) <= 1) /\ [][C16_SpawnStep]_vars

\* The task of the idle episode is alive, breathing out.
C16_Witness == Len(idle_tasks) = 1 /\ idle_tasks[1].pc = "out" /\ is_idle_mode

\* C20: after an iteration that decodes a packet while the gauge is not in
\* idle mode, the display shows the glyph of that packet's gear.
C20_DisplayShowsGear ==
    (rx.decoded /\ ~is_idle_mode) => display = GearMap[Str(TickGear)]

\* The animation tasks that have run and are asleep in a breathing cycle.
AsleepTasks == {k \in 1..Len(idle_tasks) : idle_tasks[k].pc \in {"in", "out"}}

\* C17: while gauge.in_idle_mode is false, the next wake-up of an animation
\* task asleep in a breathing cycle leaves the ring as it is and ends the
\* task, wherever in the cycle it is, and a task that has ended takes no
\* further step.
C17_CancelledAtWakeUp ==
    /\ ~gauge.in_idle_mode
          => \A k \in AsleepTasks :
                /\ animation_step(gauge, np, idle_tasks[k]).np = np
                /\ animation_step(gauge, np, idle_tasks[k]).t.pc = "done"
                /\ ~animation_step(gauge, np, idle_tasks[k]).g.in_idle_mode
    /\ \A k \in 1..Len(idle_tasks) :
          idle_tasks[k].pc = "done" => ~ENABLED run_idle_animation(k)

\* A task ended in the middle of breathing in, with the colour bar that
\* set_gauge_level drew still on the ring.
C17_Witness ==
    /\ idle_tasks # <<>>
    /\ idle_tasks[1] = [pc |-> "done", i |-> 40]
    /\ ~gauge.in_idle_mode
    /\ np = LevelBar(conf, gauge.level)
    /\ np # AllOff

Flashing == ~gauge.in_idle_mode /\ ~LevelBelow(gauge.level, conf.led_redline_flash_above)

\* C18: while the gauge is not idle and its level is at or above
\* led_redline_flash_above, a check_redline tick turns the ring off when
\* flash_cycles is even and lights it red when odd, the tick after it does
\* the opposite, also across the wrap of flash_cycles, flash_cycles stays in
\* 0..flash_max_cycles-1, and a tick changes neither level nor in_idle_mode.
C18_FlashAlternates ==
    /\ gauge.flash_cycles \in 0..(flash_max_cycles - 1)
    /\ Flashing
          => LET tick1 == redline_tick(conf, gauge, np)
                 tick2 == redline_tick(conf, tick1.g, tick1.np)
                 red == Ring(lit_pixels(gauge.level), "red", 100)
             IN  /\ red # AllOff
                 /\ tick1.np = IF gauge.flash_cycles % 2 = 0 THEN AllOff ELSE red
                 /\ tick2.np = IF gauge.flash_cycles % 2 = 0 THEN red ELSE AllOff
                 /\ tick1.g.flash_cycles =
                       IF gauge.flash_cycles = flash_max_cycles - 1 THEN 0
                       ELSE gauge.flash_cycles + 1
                 /\ tick1.g.level = gauge.level
                 /\ tick1.g.in_idle_mode = gauge.in_idle_mode

\* The ring turned off by the tick before the last one of a round of
\* flash_max_cycles: the next tick lights it and wraps flash_cycles.
C18_Witness ==
    /\ Flashing
    /\ gauge.flash_cycles = flash_max_cycles - 1
    /\ np = AllOff

\* C19: while the gauge is in idle mode or its level is below
\* led_redline_flash_above, a check_redline tick leaves the ring as it is.
C19_NoWriteOutsideRedline ==
    (gauge.in_idle_mode \/ LevelBelow(gauge.level, conf.led_redline_flash_above))
        => redline_tick(conf, gauge, np).np = np

\* Idle mode entered in the middle of flashing, with the animation on the
\* ring and the level still at the threshold or above.
C19_Witness ==
    /\ gauge.in_idle_mode
    /\ is_idle_mode
    /\ ~LevelBelow(gauge.level, conf.led_redline_flash_above)
    /\ gauge.flash_cycles % 2 = 1
    /\ np.color = "cyan"

=============================================================================
